---- MODULE Spec2Model ----
(***************************************************************************)
(* Pairwise Minkowski distances and the k-nearest-neighbour vote of the    *)
(* vectorising-python notebooks.                                           *)
(*                                                                         *)
(* Numbers.  Feature values are whole numbers, held in int64 or float64    *)
(* arrays (dtype).  A distance is the real number                          *)
(* s ** (1 / p) for an integer s >= 0; it is held exactly, as the record   *)
(* [rad |-> m, idx |-> q] that stands for the q-th root of m, with q the   *)
(* least index for which that root's q-th power is an integer.  Two        *)
(* distances are the same number iff their records are equal.              *)
(*                                                                         *)
(* A call returns [err |-> "none", val |-> v] or [err |-> e, val |-> <<>>] *)
(* when the Python code raises e.                                          *)
(***************************************************************************)
EXTENDS Integers, Sequences, FiniteSets, TLC

VARIABLES X, Y, array1, array2, vector_list, dtype, distances, labels, op, p, k,
          distance_metric, frame, result

vars == <<X, Y, array1, array2, vector_list, dtype, distances, labels, op, p, k,
          distance_metric, frame, result>>

(***************************************************************************)
(* Bounds of the model                                                     *)
(***************************************************************************)
MaxLen == 3
MaxP == 3
MaxNegP == 2
MaxRows == 3
MaxObs == 3
MaxNeighbours == 4
MaxK == 3
MaxKnnObs == 4
MaxLoopRows == 3
IntBits == 14

Vals == {0, 1, 2}
Dims == {0, 1, 2}
KnnDims == {1}
DistVals == {0, 1, 2}
LabelSet == {0, 1}
LoopVals == {0, 1}
Metrics == {"manhattan", "euclidean", "minkowski"}

(***************************************************************************)
(* Arithmetic                                                              *)
(***************************************************************************)
Abs(x) == IF x < 0 THEN -x ELSE x

RECURSIVE Pow(_, _)
Pow(b, e) == IF e = 0 THEN 1 ELSE b * Pow(b, e - 1)

Ok(v) == [err |-> "none", val |-> v]
Raise(e) == [err |-> e, val |-> <<>>]

\* The integer a number of the program holds, as a distance value
Num(s) == [rad |-> s, idx |-> 1]

\* the float64 nan
NaN == [rad |-> 0, idx |-> 0]

\* int64 arithmetic, at IntBits bits: NumPy's integer results wrap around
\* without an error, np.abs of the least integer included
MinInt == -(2 ^ (IntBits - 1))
MaxInt == 2 ^ (IntBits - 1) - 1
Wrap(x) == ((x - MinInt) % (2 ^ IntBits)) + MinInt
AbsInt(x) == Wrap(Abs(x))

RECURSIVE PowInt(_, _)
PowInt(b, e) == IF e = 0 THEN 1 ELSE Wrap(b * PowInt(b, e - 1))

\* the least r >= from with r ** g >= s
RECURSIVE RootCeil(_, _, _)
RootCeil(from, s, g) == IF Pow(from, g) >= s THEN from ELSE RootCeil(from + 1, s, g)

IntRoot(s, g) == IF g = 1 THEN s ELSE RootCeil(1, s, g)
IsPerfectPower(s, g) == Pow(IntRoot(s, g), g) = s

\* the greatest divisor g <= from of q for which s is a g-th power
RECURSIVE RootDegree(_, _, _)
RootDegree(from, s, q) ==
    IF from = 1 \/ (q % from = 0 /\ IsPerfectPower(s, from)) THEN from
    ELSE RootDegree(from - 1, s, q)

\* s ** (1 / q) for integers s, q >= 1, in float64: nan for s < 0 with q > 1
Root(s, q) ==
    IF s < 0 /\ q > 1 THEN NaN
    ELSE IF s <= 1 THEN Num(s)
    ELSE LET g == RootDegree(q, s, q)
         IN  [rad |-> IntRoot(s, g), idx |-> q \div g]

\* x <= y for distance values
LessEq(x, y) == Pow(x.rad, y.idx) <= Pow(y.rad, x.idx)
Less(x, y) == Pow(x.rad, y.idx) < Pow(y.rad, x.idx)

RECURSIVE SumSeq(_)
SumSeq(s) == IF s = <<>> THEN 0 ELSE Head(s) + SumSeq(Tail(s))

\* the sum of int64 values
SumInt(s) == Wrap(SumSeq(s))

(***************************************************************************)
(* Distance between two vectors                                            *)
(***************************************************************************)
\* the element loop without np.abs
minkowski_loop_without_abs(a, b, q) ==
    IF Len(a) > Len(b) THEN Raise("IndexError")
    ELSE LET diffs == [element \in 1..Len(a) |-> Pow(a[element] - b[element], q)]
         IN  Ok(Root(SumSeq(diffs), q))

\* the element loop that returns the sum without the final ** (1 / p)
minkowski_loop_without_root(a, b, q) ==
    IF Len(a) > Len(b) THEN Raise("IndexError")
    ELSE LET diffs == [element \in 1..Len(a) |-> PowInt(AbsInt(a[element] - b[element]), q)]
         IN  Ok(Num(SumInt(diffs)))

\* part 1, the element loop: i = len(X); Y[element] raises when Y is shorter
calculate_minkowski_distance(a, b, q) ==
    IF Len(a) > Len(b) THEN Raise("IndexError")
    ELSE LET diffs == [element \in 1..Len(a) |-> PowInt(AbsInt(a[element] - b[element]), q)]
             euclidean_distance_sq == SumInt(diffs)
         IN  Ok(Root(euclidean_distance_sq, q))

\* NumPy's elementwise X - Y of two 1-D arrays
BroadcastLen(n, m) == IF n = m THEN n ELSE IF n = 1 THEN m ELSE IF m = 1 THEN n ELSE -1
At(v, i) == IF Len(v) = 1 THEN v[1] ELSE v[i]
Subtract(a, b) == [i \in 1..BroadcastLen(Len(a), Len(b)) |-> Wrap(At(a, i) - At(b, i))]

\* the vectorised version with the power fixed at 2
minkowski_vec_squares_only(a, b, q) ==
    IF BroadcastLen(Len(a), Len(b)) < 0 THEN Raise("ValueError")
    ELSE LET d == Subtract(a, b)
         IN  Ok(Root(SumSeq([i \in 1..Len(d) |-> Pow(Abs(d[i]), 2)]), q))

\* part 1, the vectorised version: np.power(np.abs(X - Y), p), summed
calculate_minkowski_distance_vec(a, b, q) ==
    IF BroadcastLen(Len(a), Len(b)) < 0 THEN Raise("ValueError")
    ELSE LET d == Subtract(a, b)
             diffs == [i \in 1..Len(d) |-> PowInt(AbsInt(d[i]), q)]
             euclidean_distance_sq == SumInt(diffs)
         IN  Ok(Root(euclidean_distance_sq, q))

\* unoptimised solution: the element loop without power and root
calculate_manhattan_distance(a, b) ==
    IF Len(a) > Len(b) THEN Raise("IndexError")
    ELSE LET diffs == [element \in 1..Len(a) |-> Abs(a[element] - b[element])]
         IN  Ok(Num(SumSeq(diffs)))

(***************************************************************************)
(* Pairwise distances.  A list of vectors is a sequence of sequences; a    *)
(* 2-D ndarray is [d |-> feature count, rows |-> the rows], so that an     *)
(* array without rows still has its second dimension; a 2-D result is      *)
(* [shape |-> <<n, m>>, rows |-> the n rows of m distances].               *)
(***************************************************************************)
NRows(a) == Len(a.rows)

\* part 1, the nested loop over one list of vectors; the DataFrame's rows
apply_minkowski_distance(vectors, q) ==
    LET n == Len(vectors)
        cell(i, j) == calculate_minkowski_distance(vectors[i], vectors[j], q)
    IN  IF \E i \in 1..n, j \in 1..n : cell(i, j).err # "none"
        THEN Raise("IndexError")
        ELSE Ok([i \in 1..n |-> [j \in 1..n |-> cell(i, j).val]])

\* sum over the last axis of |a1[i, :] - a2[j, :]| ** q, after broadcasting
SumAbsPow(r1, r2, q) ==
    LET d == Subtract(r1, r2)
    IN  SumInt([c \in 1..Len(d) |-> PowInt(AbsInt(d[c]), q)])

\* the broadcast version that sums the absolute differences whatever p is
vectorised_ignoring_p(a1, a2, q) ==
    IF BroadcastLen(a1.d, a2.d) < 0 THEN Raise("ValueError")
    ELSE Ok([shape |-> <<NRows(a1), NRows(a2)>>,
             rows |-> [i \in 1..NRows(a1) |-> [j \in 1..NRows(a2) |->
                          Num(SumAbsPow(a1.rows[i], a2.rows[j], 1))]]])

\* the broadcast version without np.abs
vectorised_without_abs(a1, a2, q) ==
    IF BroadcastLen(a1.d, a2.d) < 0 THEN Raise("ValueError")
    ELSE LET diffs(i, j) == Subtract(a1.rows[i], a2.rows[j])
         IN  Ok([shape |-> <<NRows(a1), NRows(a2)>>,
                 rows |-> [i \in 1..NRows(a1) |-> [j \in 1..NRows(a2) |->
                    Root(SumSeq([c \in 1..Len(diffs(i, j)) |-> Pow(diffs(i, j)[c], q)]), q)]]])

\* part 2: array1[:, None, :] - array2[None, :, :], shape (n, m, d)
calculate_minkowski_distance_vectorised(a1, a2, q) ==
    IF BroadcastLen(a1.d, a2.d) < 0 THEN Raise("ValueError")
    ELSE Ok([shape |-> <<NRows(a1), NRows(a2)>>,
             rows |-> [i \in 1..NRows(a1) |-> [j \in 1..NRows(a2) |->
                          Root(SumAbsPow(a1.rows[i], a2.rows[j], q), q)]]])

\* the pairs i < j column by column
RECURSIVE TriuColumnsFrom(_, _, _)
TriuColumnsFrom(i, j, n) ==
    IF j >= n THEN <<>>
    ELSE IF i >= j THEN TriuColumnsFrom(0, j + 1, n)
    ELSE <<[row |-> i, col |-> j]>> \o TriuColumnsFrom(i + 1, j, n)

triu_indices_by_columns(n) == TriuColumnsFrom(0, 1, n)

\* np.triu_indices(n, k = 0): the diagonal included
RECURSIVE TriuDiagonalFrom(_, _, _)
TriuDiagonalFrom(i, j, n) ==
    IF i >= n THEN <<>>
    ELSE IF j >= n THEN TriuDiagonalFrom(i + 1, i + 1, n)
    ELSE <<[row |-> i, col |-> j]>> \o TriuDiagonalFrom(i, j + 1, n)

triu_indices_with_diagonal(n) == TriuDiagonalFrom(0, 0, n)

\* np.triu_indices(n, k = 1): the pairs i < j, by rows, counted from 0
RECURSIVE TriuFrom(_, _, _)
TriuFrom(i, j, n) ==
    IF i >= n - 1 THEN <<>>
    ELSE IF j >= n THEN TriuFrom(i + 1, i + 2, n)
    ELSE <<[row |-> i, col |-> j]>> \o TriuFrom(i, j + 1, n)

triu_indices(n) == TriuFrom(0, 1, n)

\* the triangular version without the final ** (1 / p)
upper_triangle_without_root(s_array, q) ==
    LET ix == triu_indices(NRows(s_array))
    IN  Ok([t \in 1..Len(ix) |->
              [row1 |-> ix[t].row, row2 |-> ix[t].col,
               distance |-> Num(SumAbsPow(s_array.rows[ix[t].row + 1],
                                          s_array.rows[ix[t].col + 1], q))]])

\* part 3: one record (row1, row2, distance) per pair of the upper triangle
calculate_minkowski_distance_upper_triangle(s_array, q) ==
    LET n == NRows(s_array)
        ix == triu_indices(n)
    IN  Ok([t \in 1..Len(ix) |->
              [row1 |-> ix[t].row, row2 |-> ix[t].col,
               distance |-> Root(SumAbsPow(s_array.rows[ix[t].row + 1],
                                           s_array.rows[ix[t].col + 1], q), q)]])

\* part 3: abs, sum; no power, no root
calculate_manhattan_distance_triangle(s_array) ==
    LET n == NRows(s_array)
        ix == triu_indices(n)
        diffs(t) == Subtract(s_array.rows[ix[t].row + 1], s_array.rows[ix[t].col + 1])
    IN  Ok([t \in 1..Len(ix) |->
              [row1 |-> ix[t].row, row2 |-> ix[t].col,
               distance |-> Num(SumInt([c \in 1..Len(diffs(t)) |-> AbsInt(diffs(t)[c])]))]])

\* part 3: np.power(diffs, 2) without abs, sum, ** (1 / 2)
calculate_euclidean_distance_triangle(s_array) ==
    LET n == NRows(s_array)
        ix == triu_indices(n)
        diffs(t) == Subtract(s_array.rows[ix[t].row + 1], s_array.rows[ix[t].col + 1])
    IN  Ok([t \in 1..Len(ix) |->
              [row1 |-> ix[t].row, row2 |-> ix[t].col,
               distance |-> Root(SumInt([c \in 1..Len(diffs(t)) |-> PowInt(diffs(t)[c], 2)]), 2)]])

\* the broadcast Manhattan distance with the new axes swapped:
\* train[:, None, :] - test[None, :, :], shape (trains, tests, d)
manhattan_vectorised_train_rows(train_observations, test_observations) ==
    IF BroadcastLen(train_observations.d, test_observations.d) < 0 THEN Raise("ValueError")
    ELSE LET diffs(i, j) == Subtract(train_observations.rows[i], test_observations.rows[j])
         IN  Ok([shape |-> <<NRows(train_observations), NRows(test_observations)>>,
                 rows |-> [i \in 1..NRows(train_observations) |->
                            [j \in 1..NRows(test_observations) |->
                               Num(SumSeq([c \in 1..Len(diffs(i, j)) |-> Abs(diffs(i, j)[c])]))]]])

\* presentation 4 and short presentation 2:
\* train[None, :, :] - test[:, None, :], shape (tests, trains, d)
calculate_manhattan_distance_vectorised(train_observations, test_observations) ==
    IF BroadcastLen(train_observations.d, test_observations.d) < 0 THEN Raise("ValueError")
    ELSE LET diffs(j, i) == Subtract(train_observations.rows[i], test_observations.rows[j])
         IN  Ok([shape |-> <<NRows(test_observations), NRows(train_observations)>>,
                 rows |-> [j \in 1..NRows(test_observations) |->
                            [i \in 1..NRows(train_observations) |->
                               Num(SumInt([c \in 1..Len(diffs(j, i)) |-> AbsInt(diffs(j, i)[c])]))]]])

\* the broadcast Euclidean distance with abs in place of the square
euclidean_vectorised_abs_for_square(train_observations, test_observations) ==
    IF BroadcastLen(train_observations.d, test_observations.d) < 0 THEN Raise("ValueError")
    ELSE LET diffs(j, i) == Subtract(train_observations.rows[i], test_observations.rows[j])
         IN  Ok([shape |-> <<NRows(test_observations), NRows(train_observations)>>,
                 rows |-> [j \in 1..NRows(test_observations) |->
                            [i \in 1..NRows(train_observations) |->
                               Root(SumSeq([c \in 1..Len(diffs(j, i)) |-> Abs(diffs(j, i)[c])]), 2)]]])

\* presentation 4: square without abs, sum, square root
calculate_euclidean_distance_vectorised(train_observations, test_observations) ==
    IF BroadcastLen(train_observations.d, test_observations.d) < 0 THEN Raise("ValueError")
    ELSE LET diffs(j, i) == Subtract(train_observations.rows[i], test_observations.rows[j])
         IN  Ok([shape |-> <<NRows(test_observations), NRows(train_observations)>>,
                 rows |-> [j \in 1..NRows(test_observations) |->
                            [i \in 1..NRows(train_observations) |->
                               Root(SumInt([c \in 1..Len(diffs(j, i)) |-> PowInt(diffs(j, i)[c], 2)]), 2)]]])

(***************************************************************************)
(* Powers p <= 0.  No function checks p.  1 / p raises ZeroDivisionError   *)
(* for p = 0.  For p < 0 an int64 base raises ValueError ("Integers to     *)
(* negative integer powers are not allowed") in every element; whether     *)
(* np.power of an int64 array without elements raises is left open.  A     *)
(* float64 base gives 0.0 ** p = inf and goes on.  The results are the set *)
(* of outcomes; a float64 value for p < 0 is (num / den) ** (1 / idx),     *)
(* with den = 0 for inf.                                                   *)
(***************************************************************************)
RECURSIVE Gcd(_, _)
Gcd(a, b) == IF b = 0 THEN a ELSE Gcd(b, a % b)

Ratio(num, den, idx) ==
    [num |-> num \div Gcd(num, den), den |-> den \div Gcd(num, den), idx |-> idx]

Inf == Ratio(1, 0, 1)

RECURSIVE Product(_)
Product(s) == IF s = <<>> THEN 1 ELSE Head(s) * Product(Tail(s))

\* float64: (sum of a[i] ** -q) ** (-1 / q) for q >= 1; the sum over no
\* element is 0.0, 0.0 ** -q is inf, inf ** (-1 / q) is 0.0
NegRootFloat(a, q) ==
    IF a = <<>> THEN Inf
    ELSE IF \E i \in 1..Len(a) : a[i] = 0 THEN Ratio(0, 1, 1)
    ELSE LET pw == [i \in 1..Len(a) |-> Pow(a[i], q)]
             den == Product(pw)
             num == SumSeq([i \in 1..Len(a) |-> den \div pw[i]])
         IN  Ratio(den, num, q)

\* part 1, the element loop, for every integer p
calculate_minkowski_distance_any_p(a, b, q, dt) ==
    IF q >= 1 THEN {calculate_minkowski_distance(a, b, q)}
    ELSE IF q < 0 /\ dt = "int64" /\ Len(a) >= 1 /\ Len(b) >= 1 THEN {Raise("ValueError")}
    ELSE IF Len(a) > Len(b) THEN {Raise("IndexError")}
    ELSE IF q = 0 \/ Len(a) = 0 THEN {Raise("ZeroDivisionError")}
    ELSE {Ok(NegRootFloat([element \in 1..Len(a) |-> Abs(a[element] - b[element])], -q))}

\* part 1, the vectorised version, for every integer p; sum() of an array
\* without elements is the int 0, and 0 ** (1 / p) raises for p < 0
calculate_minkowski_distance_vec_any_p(a, b, q, dt) ==
    IF q >= 1 THEN {calculate_minkowski_distance_vec(a, b, q)}
    ELSE IF BroadcastLen(Len(a), Len(b)) < 0 THEN {Raise("ValueError")}
    ELSE IF q < 0 /\ dt = "int64"
    THEN IF BroadcastLen(Len(a), Len(b)) >= 1 THEN {Raise("ValueError")}
         ELSE {Raise("ValueError"), Raise("ZeroDivisionError")}
    ELSE IF q = 0 \/ BroadcastLen(Len(a), Len(b)) = 0 THEN {Raise("ZeroDivisionError")}
    ELSE LET d == Subtract(a, b)
         IN  {Ok(NegRootFloat([i \in 1..Len(d) |-> Abs(d[i])], -q))}

\* part 2, the broadcast version, for every integer p
calculate_minkowski_distance_vectorised_any_p(a1, a2, q, dt) ==
    IF q >= 1 THEN {calculate_minkowski_distance_vectorised(a1, a2, q)}
    ELSE IF BroadcastLen(a1.d, a2.d) < 0 THEN {Raise("ValueError")}
    ELSE IF q = 0 THEN {Raise("ZeroDivisionError")}
    ELSE LET diffs(i, j) == Subtract(a1.rows[i], a2.rows[j])
             returned ==
                 Ok([shape |-> <<NRows(a1), NRows(a2)>>,
                     rows |-> [i \in 1..NRows(a1) |-> [j \in 1..NRows(a2) |->
                        NegRootFloat([c \in 1..Len(diffs(i, j)) |-> Abs(diffs(i, j)[c])], -q)]]])
         IN  IF dt = "float64" THEN {returned}
             ELSE IF NRows(a1) >= 1 /\ NRows(a2) >= 1 /\ BroadcastLen(a1.d, a2.d) >= 1
             THEN {Raise("ValueError")}
             ELSE {Raise("ValueError"), returned}

(***************************************************************************)
(* Nearest neighbours.  A call whose outcome the code does not fix (the    *)
(* iteration order of a set of labels, the order an unstable sort gives    *)
(* equal keys) is the set of the results it can return.                    *)
(***************************************************************************)
Min(a, b) == IF a < b THEN a ELSE b
Max(a, b) == IF a > b THEN a ELSE b

\* s[:n]
Take(s, n) ==
    IF n >= 0 THEN SubSeq(s, 1, Min(n, Len(s)))
    ELSE SubSeq(s, 1, Max(Len(s) + n, 0))

\* s[1:]
Rest(s) == IF s = <<>> THEN <<>> ELSE Tail(s)

\* zip(distances, labels): as long as the shorter of the two
Zip(ds, ls) == [i \in 1..Min(Len(ds), Len(ls)) |-> [dist |-> ds[i], label |-> ls[i]]]

\* the insertion of a sort that puts the later of two equal distances first
RECURSIVE insert_before_equal(_, _)
insert_before_equal(x, s) ==
    IF s = <<>> THEN <<x>>
    ELSE IF LessEq(x.dist, Head(s).dist) THEN <<x>> \o s
    ELSE <<Head(s)>> \o insert_before_equal(x, Tail(s))

\* sorted(..., key=itemgetter(0)): stable, equal distances keep their order
RECURSIVE InsertSorted(_, _)
InsertSorted(x, s) ==
    IF s = <<>> THEN <<x>>
    ELSE IF Less(x.dist, Head(s).dist) THEN <<x>> \o s
    ELSE <<Head(s)>> \o InsertSorted(x, Tail(s))

RECURSIVE Sorted(_)
Sorted(s) ==
    IF s = <<>> THEN <<>>
    ELSE InsertSorted(s[Len(s)], Sorted(SubSeq(s, 1, Len(s) - 1)))

Count(s, x) == Cardinality({i \in 1..Len(s) : s[i] = x})
Elements(s) == {s[i] : i \in 1..Len(s)}

\* the labels no other label of s outnumbers
Modes(s) == {x \in Elements(s) : \A y \in Elements(s) : Count(s, y) <= Count(s, x)}

\* the list version without the [1:] after sorting
nearest_neighbour_keeping_first(ds, ls, kk) ==
    LET sorted_distances == Sorted(Zip(ds, ls))
        top_n_labels == Take([i \in 1..Len(sorted_distances) |-> sorted_distances[i].label], kk)
    IN  IF top_n_labels = <<>> THEN {Raise("ValueError")}
        ELSE {Ok(x) : x \in Modes(top_n_labels)}

\* the list version returning the least frequent of the k labels
nearest_neighbour_least_common(ds, ls, kk) ==
    LET sorted_distances == Rest(Sorted(Zip(ds, ls)))
        top_n_labels == Take([i \in 1..Len(sorted_distances) |-> sorted_distances[i].label], kk)
    IN  IF top_n_labels = <<>> THEN {Raise("ValueError")}
        ELSE {Ok(x) : x \in {y \in Elements(top_n_labels) :
                                \A z \in Elements(top_n_labels) :
                                    Count(top_n_labels, y) <= Count(top_n_labels, z)}}

\* the list version reading k labels by index instead of slicing
nearest_neighbour_indexing_k(ds, ls, kk) ==
    LET sorted_distances == Rest(Sorted(Zip(ds, ls)))
        top_n_labels == Take([i \in 1..Len(sorted_distances) |-> sorted_distances[i].label], kk)
    IN  IF kk > Len(sorted_distances) THEN {Raise("IndexError")}
        ELSE IF top_n_labels = <<>> THEN {Raise("ValueError")}
        ELSE {Ok(x) : x \in Modes(top_n_labels)}

\* presentations 1, short presentation 2, unoptimised solution (lists):
\* sort, drop the first, keep k labels, max over the set of labels by count
calculate_nearest_neighbour(ds, ls, kk) ==
    LET sorted_distances == Rest(Sorted(Zip(ds, ls)))
        top_n_labels == Take([i \in 1..Len(sorted_distances) |-> sorted_distances[i].label], kk)
    IN  IF top_n_labels = <<>> THEN {Raise("ValueError")}
        ELSE {Ok(x) : x \in Modes(top_n_labels)}

\* the orders distances[..].argsort() can give: every order that sorts
ArgsortOrders(ds) ==
    {f \in Permutations(1..Len(ds)) :
        \A i, j \in 1..Len(ds) : i < j => LessEq(ds[f[i]], ds[f[j]])}

\* presentation 4 (NumPy): vstack, argsort, [0:k], unique with counts,
\* argsort of the counts reversed, first row
calculate_nearest_neighbour_np(ds, ls, kk) ==
    IF Len(ds) # Len(ls) THEN {Raise("ValueError")}
    ELSE UNION {
           LET k_top_labels == Take([i \in 1..Len(ds) |-> ls[f[i]]], kk)
           IN  IF k_top_labels = <<>> THEN {Raise("IndexError")}
               ELSE {Ok(x) : x \in Modes(k_top_labels)}
           : f \in ArgsortOrders(ds)}

\* unoptimised solution: the nested loop, then zip(*distances)
apply_manhattan_distance(vectors_1, vectors_2) ==
    LET n1 == Len(vectors_1)
        n2 == Len(vectors_2)
        cell(i, j) == calculate_manhattan_distance(vectors_1[i], vectors_2[j])
    IN  IF \E i \in 1..n1, j \in 1..n2 : cell(i, j).err # "none"
        THEN Raise("IndexError")
        ELSE IF n1 = 0 THEN Ok(<<>>)
        ELSE Ok([j \in 1..n2 |-> [i \in 1..n1 |-> cell(i, j).val]])

\* presentation 1: the nested loop over train and test observations with
\* the vector distance of rows that are arrays, then zip(*distances)
apply_minkowski_distance_train_test(vectors_1, vectors_2, q) ==
    LET n1 == Len(vectors_1)
        n2 == Len(vectors_2)
        cell(i, j) == calculate_minkowski_distance_vec(vectors_1[i], vectors_2[j], q)
    IN  IF \E i \in 1..n1, j \in 1..n2 : cell(i, j).err # "none"
        THEN Raise("ValueError")
        ELSE IF n1 = 0 THEN Ok(<<>>)
        ELSE Ok([j \in 1..n2 |-> [i \in 1..n1 |-> cell(i, j).val]])

\* one label per row of train_test_distances, outcomes[i] being what the
\* call for row i can give; the first call that raises ends the loop
LabelRows(outcomes) ==
    LET failed == {i \in 1..Len(outcomes) : \E r \in outcomes[i] : r.err # "none"}
        first == CHOOSE i \in failed : \A j \in failed : i <= j
    IN  IF failed # {} THEN {r \in outcomes[first] : r.err # "none"}
        ELSE {Ok(g) : g \in {h \in [1..Len(outcomes) -> LabelSet] :
                                \A i \in 1..Len(outcomes) : Ok(h[i]) \in outcomes[i]}}

\* unoptimised solution: calculate_knn over lists
calculate_knn_unoptimised(X_train, X_test, y_train, kk) ==
    LET train_test_distances == apply_manhattan_distance(X_train, X_test)
        rows == train_test_distances.val
    IN  IF train_test_distances.err # "none" THEN {train_test_distances}
        ELSE LabelRows([i \in 1..Len(rows) |->
                           calculate_nearest_neighbour(rows[i], y_train, kk)])

\* calculate_knn taking every name but "euclidean" for the Manhattan distance
calculate_knn_manhattan_by_default(X_train, X_test, y_train, metric, kk) ==
    LET train_test_distances ==
            IF metric = "euclidean"
            THEN calculate_euclidean_distance_vectorised(X_train, X_test)
            ELSE calculate_manhattan_distance_vectorised(X_train, X_test)
        rows == train_test_distances.val.rows
    IN  IF train_test_distances.err # "none" THEN {train_test_distances}
        ELSE IF train_test_distances.val.shape[1] = 0 THEN {Raise("ValueError")}
        ELSE LabelRows([i \in 1..Len(rows) |->
                           calculate_nearest_neighbour_np(rows[i], y_train, kk)])

\* presentation 4: calculate_knn over arrays; np.apply_along_axis raises
\* when the matrix of distances has no rows
calculate_knn(X_train, X_test, y_train, metric, kk) ==
    LET train_test_distances ==
            IF metric = "manhattan"
            THEN calculate_manhattan_distance_vectorised(X_train, X_test)
            ELSE calculate_euclidean_distance_vectorised(X_train, X_test)
        rows == train_test_distances.val.rows
    IN  IF train_test_distances.err # "none" THEN {train_test_distances}
        ELSE IF train_test_distances.val.shape[1] = 0 THEN {Raise("ValueError")}
        ELSE LabelRows([i \in 1..Len(rows) |->
                           calculate_nearest_neighbour_np(rows[i], y_train, kk)])

(***************************************************************************)
(* State.  X, Y: two vectors; array1, array2: two matrices; distances,     *)
(* labels: one row of distances with the aligned training labels.  A call  *)
(* leaves in op its name, in p and k the arguments it was given and in     *)
(* result what it returned or raised.                                      *)
(***************************************************************************)
VectorsOf(d) == [1..d -> Vals]
Vectors == UNION {VectorsOf(d) : d \in 0..MaxLen}
ArraysOf(n, d) == {[d |-> d, rows |-> r] : r \in [1..n -> VectorsOf(d)]}
Arrays(maxn) == UNION {ArraysOf(n, d) : n \in 0..maxn, d \in Dims}
NoArray == [d |-> 0, rows |-> <<>>]

Data == <<X, Y, array1, array2, vector_list, dtype, distances, labels, frame>>

\* the locals of a call of the nested loop: where it stands (pc), the
\* indices of a and b in vector_list, the rows built and the row being built,
\* and the number of distances computed so far
NoFrame ==
    [pc |-> "idle", i |-> 0, j |-> 0, distances |-> <<>>, tmp_distances |-> <<>>, calls |-> 0]

NoCall ==
    /\ op = "none"
    /\ p = 1
    /\ k = 1
    /\ distance_metric = "none"
    /\ result = Ok(<<>>)

(***************************************************************************)
(* Two vectors                                                             *)
(***************************************************************************)
InitVec ==
    /\ X \in Vectors
    /\ Y \in Vectors
    /\ array1 = NoArray
    /\ array2 = NoArray
    /\ distances = <<>>
    /\ labels = <<>>
    /\ dtype = "int64"
    /\ vector_list = <<>>
    /\ frame = NoFrame
    /\ NoCall

CallMinkowskiLoop ==
    /\ op = "none"
    /\ \E q \in 1..MaxP :
         /\ p' = q
         /\ result' = calculate_minkowski_distance(X, Y, q)
    /\ op' = "calculate_minkowski_distance"
    /\ UNCHANGED <<Data, k, distance_metric>>

CallMinkowskiVec ==
    /\ op = "none"
    /\ \E q \in 1..MaxP :
         /\ p' = q
         /\ result' = calculate_minkowski_distance_vec(X, Y, q)
    /\ op' = "calculate_minkowski_distance_vec"
    /\ UNCHANGED <<Data, k, distance_metric>>

CallManhattanLoop ==
    /\ op = "none"
    /\ result' = calculate_manhattan_distance(X, Y)
    /\ op' = "calculate_manhattan_distance"
    /\ UNCHANGED <<Data, p, k, distance_metric>>

NextVec == CallMinkowskiLoop \/ CallMinkowskiVec \/ CallManhattanLoop

Spec == InitVec /\ [][NextVec]_vars

(***************************************************************************)
(* One matrix compared with itself                                         *)
(***************************************************************************)
InitSelf ==
    /\ array1 \in Arrays(MaxRows)
    /\ array2 = array1
    /\ X = <<>>
    /\ Y = <<>>
    /\ distances = <<>>
    /\ labels = <<>>
    /\ dtype = "int64"
    /\ vector_list = <<>>
    /\ frame = NoFrame
    /\ NoCall

CallApplyMinkowski ==
    /\ op = "none"
    /\ \E q \in 1..MaxP :
         /\ p' = q
         /\ result' = apply_minkowski_distance(array1.rows, q)
    /\ op' = "apply_minkowski_distance"
    /\ UNCHANGED <<Data, k, distance_metric>>

CallVectorised ==
    /\ op = "none"
    /\ \E q \in 1..MaxP :
         /\ p' = q
         /\ result' = calculate_minkowski_distance_vectorised(array1, array2, q)
    /\ op' = "calculate_minkowski_distance_vectorised"
    /\ UNCHANGED <<Data, k, distance_metric>>

CallUpperTriangle ==
    /\ op = "none"
    /\ \E q \in 1..MaxP :
         /\ p' = q
         /\ result' = calculate_minkowski_distance_upper_triangle(array1, q)
    /\ op' = "calculate_minkowski_distance_upper_triangle"
    /\ UNCHANGED <<Data, k, distance_metric>>

CallManhattanTriangle ==
    /\ op = "none"
    /\ result' = calculate_manhattan_distance_triangle(array1)
    /\ op' = "calculate_manhattan_distance_triangle"
    /\ UNCHANGED <<Data, p, k, distance_metric>>

CallEuclideanTriangle ==
    /\ op = "none"
    /\ result' = calculate_euclidean_distance_triangle(array1)
    /\ op' = "calculate_euclidean_distance_triangle"
    /\ UNCHANGED <<Data, p, k, distance_metric>>

NextSelf ==
    \/ CallApplyMinkowski
    \/ CallVectorised
    \/ CallUpperTriangle
    \/ CallManhattanTriangle
    \/ CallEuclideanTriangle

SpecSelf == InitSelf /\ [][NextSelf]_vars

(***************************************************************************)
(* Two matrices: training and test observations                            *)
(***************************************************************************)
\* the splits of at most maxn observations in n training and m test rows
Splits(maxn) == {nm \in (0..maxn) \X (0..maxn) : nm[1] + nm[2] <= maxn}

InitShapes ==
    /\ \E nm \in Splits(MaxObs), d1 \in Dims, d2 \in Dims :
         /\ array1 \in ArraysOf(nm[1], d1)
         /\ array2 \in ArraysOf(nm[2], d2)
    /\ X = <<>>
    /\ Y = <<>>
    /\ distances = <<>>
    /\ labels = <<>>
    /\ dtype = "int64"
    /\ vector_list = <<>>
    /\ frame = NoFrame
    /\ NoCall

\* both matrices hold vectors of one length
InitPair ==
    /\ InitShapes
    /\ array1.d = array2.d

CallManhattanVectorised ==
    /\ op = "none"
    /\ result' = calculate_manhattan_distance_vectorised(array1, array2)
    /\ op' = "calculate_manhattan_distance_vectorised"
    /\ UNCHANGED <<Data, p, k, distance_metric>>

CallEuclideanVectorised ==
    /\ op = "none"
    /\ result' = calculate_euclidean_distance_vectorised(array1, array2)
    /\ op' = "calculate_euclidean_distance_vectorised"
    /\ UNCHANGED <<Data, p, k, distance_metric>>

CallApplyManhattan ==
    /\ op = "none"
    /\ result' = apply_manhattan_distance(array1.rows, array2.rows)
    /\ op' = "apply_manhattan_distance"
    /\ UNCHANGED <<Data, p, k, distance_metric>>

CallApplyMinkowskiTrainTest ==
    /\ op = "none"
    /\ \E q \in 1..MaxP :
         /\ p' = q
         /\ result' = apply_minkowski_distance_train_test(array1.rows, array2.rows, q)
    /\ op' = "apply_minkowski_distance_train_test"
    /\ UNCHANGED <<Data, k, distance_metric>>

NextPair ==
    \/ CallVectorised
    \/ CallManhattanVectorised
    \/ CallEuclideanVectorised
    \/ CallApplyManhattan
    \/ CallApplyMinkowskiTrainTest
    \/ CallManhattanTriangle
    \/ CallEuclideanTriangle

SpecPair == InitPair /\ [][NextPair]_vars

\* the feature counts of the two matrices are free
SpecShapes == InitShapes /\ [][NextPair]_vars

(***************************************************************************)
(* One row of distances and the training labels                            *)
(***************************************************************************)
DistanceRows == UNION {[1..n -> {Num(v) : v \in DistVals}] : n \in 0..MaxNeighbours}

InitNN ==
    /\ distances \in DistanceRows
    /\ labels \in [1..Len(distances) -> LabelSet]
    /\ X = <<>>
    /\ Y = <<>>
    /\ array1 = NoArray
    /\ array2 = NoArray
    /\ dtype = "int64"
    /\ vector_list = <<>>
    /\ frame = NoFrame
    /\ NoCall

CallNearestNeighbour ==
    /\ op = "none"
    /\ \E kk \in (-1)..MaxK :
         /\ k' = kk
         /\ result' \in calculate_nearest_neighbour(distances, labels, kk)
    /\ op' = "calculate_nearest_neighbour"
    /\ UNCHANGED <<Data, p, distance_metric>>

CallNearestNeighbourNp ==
    /\ op = "none"
    /\ \E kk \in (-1)..MaxK :
         /\ k' = kk
         /\ result' \in calculate_nearest_neighbour_np(distances, labels, kk)
    /\ op' = "calculate_nearest_neighbour_np"
    /\ UNCHANGED <<Data, p, distance_metric>>

NextNN == CallNearestNeighbour \/ CallNearestNeighbourNp

SpecNN == InitNN /\ [][NextNN]_vars

(***************************************************************************)
(* Training observations with their labels, and test observations          *)
(***************************************************************************)
InitKnn ==
    /\ \E nm \in Splits(MaxKnnObs), d \in KnnDims :
         /\ array1 \in ArraysOf(nm[1], d)
         /\ array2 \in ArraysOf(nm[2], d)
    /\ labels \in [1..NRows(array1) -> LabelSet]
    /\ X = <<>>
    /\ Y = <<>>
    /\ distances = <<>>
    /\ dtype = "int64"
    /\ vector_list = <<>>
    /\ frame = NoFrame
    /\ NoCall

CallKnnUnoptimised ==
    /\ op = "none"
    /\ \E kk \in 1..MaxK :
         /\ k' = kk
         /\ result' \in calculate_knn_unoptimised(array1.rows, array2.rows, labels, kk)
    /\ op' = "calculate_knn_unoptimised"
    /\ UNCHANGED <<Data, p, distance_metric>>

CallKnn ==
    /\ op = "none"
    /\ \E kk \in 1..MaxK, metric \in Metrics :
         /\ k' = kk
         /\ distance_metric' = metric
         /\ result' \in calculate_knn(array1, array2, labels, metric, kk)
    /\ op' = "calculate_knn"
    /\ UNCHANGED <<Data, p>>

NextKnn == CallKnnUnoptimised \/ CallKnn

SpecKnn == InitKnn /\ [][NextKnn]_vars

(***************************************************************************)
(* Any integer power, int64 or float64 values: two vectors, or two         *)
(* matrices of one feature count                                           *)
(***************************************************************************)
DTypes == {"int64", "float64"}

InitPower ==
    /\ dtype \in DTypes
    /\ \/ /\ X \in Vectors
          /\ Y \in Vectors
          /\ array1 = NoArray
          /\ array2 = NoArray
       \/ /\ X = <<>>
          /\ Y = <<>>
          /\ \E nm \in Splits(MaxObs), d \in Dims :
               /\ array1 \in ArraysOf(nm[1], d)
               /\ array2 \in ArraysOf(nm[2], d)
    /\ distances = <<>>
    /\ labels = <<>>
    /\ vector_list = <<>>
    /\ frame = NoFrame
    /\ NoCall

CallMinkowskiLoopAnyP ==
    /\ op = "none"
    /\ \E q \in (-MaxNegP)..MaxP :
         /\ p' = q
         /\ result' \in calculate_minkowski_distance_any_p(X, Y, q, dtype)
    /\ op' = "calculate_minkowski_distance"
    /\ UNCHANGED <<Data, k, distance_metric>>

CallMinkowskiVecAnyP ==
    /\ op = "none"
    /\ \E q \in (-MaxNegP)..MaxP :
         /\ p' = q
         /\ result' \in calculate_minkowski_distance_vec_any_p(X, Y, q, dtype)
    /\ op' = "calculate_minkowski_distance_vec"
    /\ UNCHANGED <<Data, k, distance_metric>>

CallVectorisedAnyP ==
    /\ op = "none"
    /\ \E q \in (-MaxNegP)..MaxP :
         /\ p' = q
         /\ result' \in calculate_minkowski_distance_vectorised_any_p(array1, array2, q, dtype)
    /\ op' = "calculate_minkowski_distance_vectorised"
    /\ UNCHANGED <<Data, k, distance_metric>>

NextPower == CallMinkowskiLoopAnyP \/ CallMinkowskiVecAnyP \/ CallVectorisedAnyP

SpecPower == InitPower /\ [][NextPower]_vars

(***************************************************************************)
(* The nested loop of apply_minkowski_distance, one call of                *)
(* calculate_minkowski_distance per step, over a list of vectors whose     *)
(* lengths may differ                                                      *)
(***************************************************************************)
LoopVectors == UNION {[1..d -> LoopVals] : d \in Dims}
VectorLists == UNION {[1..n -> LoopVectors] : n \in 0..MaxLoopRows}

InitLoop ==
    /\ vector_list \in VectorLists
    /\ X = <<>>
    /\ Y = <<>>
    /\ array1 = NoArray
    /\ array2 = NoArray
    /\ dtype = "int64"
    /\ distances = <<>>
    /\ labels = <<>>
    /\ frame = NoFrame
    /\ NoCall

\* the call: distances = [], the first a
StartApplyMinkowski ==
    /\ op = "none"
    /\ \E q \in 1..MaxP : p' = q
    /\ op' = "apply_minkowski_distance"
    /\ frame' = [NoFrame EXCEPT !.pc = "loop", !.i = 1, !.j = 1]
    /\ UNCHANGED <<X, Y, array1, array2, vector_list, dtype, distances, labels, k,
                   distance_metric, result>>

\* one pass of the inner loop that writes 0 for a vector and itself without
\* calling the distance function
StepSkippingSelf ==
    /\ frame.pc = "loop"
    /\ frame.i <= Len(vector_list)
    /\ LET cell == IF frame.i = frame.j THEN Ok(Num(0))
                   ELSE calculate_minkowski_distance(vector_list[frame.i], vector_list[frame.j], p)
           row == Append(frame.tmp_distances, cell.val)
           called == IF frame.i = frame.j THEN 0 ELSE 1
       IN  IF cell.err # "none"
           THEN /\ frame' = [NoFrame EXCEPT !.pc = "raised", !.calls = frame.calls]
                /\ result' = cell
           ELSE /\ result' = result
                /\ frame' =
                     IF frame.j < Len(vector_list)
                     THEN [frame EXCEPT !.j = frame.j + 1, !.tmp_distances = row,
                                        !.calls = frame.calls + called]
                     ELSE [frame EXCEPT !.i = frame.i + 1, !.j = 1,
                                        !.tmp_distances = <<>>,
                                        !.distances = Append(frame.distances, row),
                                        !.calls = frame.calls + called]
    /\ UNCHANGED <<X, Y, array1, array2, vector_list, dtype, distances, labels, op, p, k,
                   distance_metric>>

\* one pass of the inner loop: the distance between a and b is appended to
\* tmp_distances, and after the last b the row to distances; an exception
\* ends the call and its locals
StepApplyMinkowski ==
    /\ frame.pc = "loop"
    /\ frame.i <= Len(vector_list)
    /\ LET cell == calculate_minkowski_distance(vector_list[frame.i], vector_list[frame.j], p)
           row == Append(frame.tmp_distances, cell.val)
       IN  IF cell.err # "none"
           THEN /\ frame' = [NoFrame EXCEPT !.pc = "raised", !.calls = frame.calls]
                /\ result' = cell
           ELSE /\ result' = result
                /\ frame' =
                     IF frame.j < Len(vector_list)
                     THEN [frame EXCEPT !.j = frame.j + 1, !.tmp_distances = row,
                                        !.calls = frame.calls + 1]
                     ELSE [frame EXCEPT !.i = frame.i + 1, !.j = 1,
                                        !.tmp_distances = <<>>,
                                        !.distances = Append(frame.distances, row),
                                        !.calls = frame.calls + 1]
    /\ UNCHANGED <<X, Y, array1, array2, vector_list, dtype, distances, labels, op, p, k,
                   distance_metric>>

\* after the last a: return pd.DataFrame(distances)
ReturnApplyMinkowski ==
    /\ frame.pc = "loop"
    /\ frame.i > Len(vector_list)
    /\ result' = Ok(frame.distances)
    /\ frame' = [NoFrame EXCEPT !.pc = "done", !.calls = frame.calls]
    /\ UNCHANGED <<X, Y, array1, array2, vector_list, dtype, distances, labels, op, p, k,
                   distance_metric>>

NextLoop == StartApplyMinkowski \/ StepApplyMinkowski \/ ReturnApplyMinkowski

SpecLoop == InitLoop /\ [][NextLoop]_vars

(***************************************************************************)
(* Two int64 matrices of one feature count that hold the extreme integers  *)
(***************************************************************************)
WideVals == {MinInt, 0, 1, MaxInt}
WideDims == {1, 2}
WideArraysOf(n, d) == {[d |-> d, rows |-> r] : r \in [1..n -> [1..d -> WideVals]]}

InitWide ==
    /\ \E nm \in Splits(MaxObs - 1), d \in WideDims :
         /\ array1 \in WideArraysOf(nm[1], d)
         /\ array2 \in WideArraysOf(nm[2], d)
    /\ X = <<>>
    /\ Y = <<>>
    /\ vector_list = <<>>
    /\ dtype = "int64"
    /\ distances = <<>>
    /\ labels = <<>>
    /\ frame = NoFrame
    /\ NoCall

SpecWide == InitWide /\ [][NextPair]_vars

(***************************************************************************)
(* The vectors of the notebooks' examples and their leading parts          *)
(***************************************************************************)
ExampleX == <<5, 7, 3, 9>>
ExampleY == <<1, 6, 2, 4>>
ExampleZ == <<8, 8, 3, 1>>
ExampleVectors == {SubSeq(v, 1, n) : v \in {ExampleX, ExampleY, ExampleZ}, n \in 0..4}

InitExample ==
    /\ X \in ExampleVectors
    /\ Y \in ExampleVectors
    /\ array1 = NoArray
    /\ array2 = NoArray
    /\ vector_list = <<>>
    /\ dtype = "int64"
    /\ distances = <<>>
    /\ labels = <<>>
    /\ frame = NoFrame
    /\ NoCall

SpecExample == InitExample /\ [][NextVec]_vars

\* part 1 and part 3 put the example vectors (or some of them, cut to a
\* common length) into one list / one array that is compared with itself
ExampleArrays ==
    UNION {{[d |-> n, rows |-> r] :
                r \in UNION {[1..m -> {SubSeq(v, 1, n) : v \in {ExampleX, ExampleY, ExampleZ}}]
                                : m \in 0..3}}
             : n \in 0..4}

InitExampleSelf ==
    /\ array1 \in ExampleArrays
    /\ array2 = array1
    /\ X = <<>>
    /\ Y = <<>>
    /\ vector_list = <<>>
    /\ dtype = "int64"
    /\ distances = <<>>
    /\ labels = <<>>
    /\ frame = NoFrame
    /\ NoCall

SpecExampleSelf == InitExampleSelf /\ [][NextSelf]_vars

(***************************************************************************)
(* A row of four neighbours at distances 0, 1.2, 1.5 and 2.0 with the      *)
(* labels A, A, B, A.  The functions only compare distances, so the row is *)
(* kept in tenths: 0, 12, 15, 20.  The row reaches the function in         *)
(* training order, which is any order, and with any of its entries.        *)
(***************************************************************************)
ExampleNeighbours ==
    << [dist |-> Num(0), label |-> "A"], [dist |-> Num(12), label |-> "A"],
       [dist |-> Num(15), label |-> "B"], [dist |-> Num(20), label |-> "A"] >>

ExampleRows ==
    UNION {{[i \in 1..n |-> ExampleNeighbours[f[i]]] : f \in Permutations(1..4)} : n \in 0..4}

InitExampleNN ==
    /\ \E row \in ExampleRows :
         /\ distances = [i \in 1..Len(row) |-> row[i].dist]
         /\ labels = [i \in 1..Len(row) |-> row[i].label]
    /\ X = <<>>
    /\ Y = <<>>
    /\ array1 = NoArray
    /\ array2 = NoArray
    /\ dtype = "float64"
    /\ vector_list = <<>>
    /\ frame = NoFrame
    /\ NoCall

SpecExampleNN == InitExampleNN /\ [][CallNearestNeighbour]_vars

(***************************************************************************)
(* calculate_knn step by step: the matrix of distances first, then one     *)
(* call of calculate_nearest_neighbour per row of it.  frame holds the     *)
(* locals: train_test_distances and the predictions of calculate_knn, and  *)
(* the names distances and labels of the running nearest-neighbour call.   *)
(* array1, array2 and labels are the caller's X_train, X_test and y_train. *)
(***************************************************************************)
MaxStepObs == 4

\* np.unique(s): the distinct values, ascending
RECURSIVE UniqueFrom(_)
UniqueFrom(S) ==
    IF S = {} THEN <<>>
    ELSE LET m == CHOOSE x \in S : \A y \in S : x <= y
         IN  <<m>> \o UniqueFrom(S \ {m})

Unique(s) == UniqueFrom(Elements(s))

\* presentation 4, calculate_nearest_neighbour: what the call returns
\* together with what its local name labels is bound to when it returns
\* (labels, counts = np.unique(k_top_labels, return_counts = True))
nearest_neighbour_np_locals(ds, ls, kk) ==
    IF Len(ds) # Len(ls) THEN {[labels |-> ls, out |-> Raise("ValueError")]}
    ELSE UNION {
           LET k_top_labels == Take([i \in 1..Len(ds) |-> ls[f[i]]], kk)
           IN  IF k_top_labels = <<>>
               THEN {[labels |-> Unique(k_top_labels), out |-> Raise("IndexError")]}
               ELSE {[labels |-> Unique(k_top_labels), out |-> Ok(x)] : x \in Modes(k_top_labels)}
           : f \in ArgsortOrders(ds)}

\* the list versions never assign to labels
nearest_neighbour_locals(ds, ls, kk) ==
    {[labels |-> ls, out |-> r] : r \in calculate_nearest_neighbour(ds, ls, kk)}

KnnFrame(rows) ==
    [pc |-> "rows", i |-> 1, train_test_distances |-> rows,
     distances |-> <<>>, labels |-> <<>>, predicted_labels |-> <<>>]

KnnRaised == [KnnFrame(<<>>) EXCEPT !.pc = "raised"]

InitKnnSteps ==
    /\ \E nm \in Splits(MaxStepObs), d \in KnnDims :
         /\ array1 \in ArraysOf(nm[1], d)
         /\ array2 \in ArraysOf(nm[2], d)
    /\ labels \in [1..NRows(array1) -> LabelSet]
    /\ X = <<>>
    /\ Y = <<>>
    /\ distances = <<>>
    /\ dtype = "int64"
    /\ vector_list = <<>>
    /\ frame = NoFrame
    /\ NoCall

\* unoptimised solution, calculate_knn up to the loop over the rows
StartKnnUnoptimised ==
    /\ op = "none"
    /\ \E kk \in 1..MaxK : k' = kk
    /\ op' = "calculate_knn_unoptimised"
    /\ LET train_test_distances == apply_manhattan_distance(array1.rows, array2.rows)
       IN  IF train_test_distances.err # "none"
           THEN /\ frame' = KnnRaised
                /\ result' = train_test_distances
           ELSE /\ frame' = KnnFrame(train_test_distances.val)
                /\ result' = result
    /\ UNCHANGED <<X, Y, array1, array2, vector_list, dtype, distances, labels, p,
                   distance_metric>>

\* presentation 4, calculate_knn up to np.apply_along_axis, which raises
\* when the matrix of distances has no rows
StartKnn ==
    /\ op = "none"
    /\ \E kk \in 1..MaxK : k' = kk
    /\ \E metric \in Metrics :
         /\ distance_metric' = metric
         /\ LET train_test_distances ==
                    IF metric = "manhattan"
                    THEN calculate_manhattan_distance_vectorised(array1, array2)
                    ELSE calculate_euclidean_distance_vectorised(array1, array2)
            IN  IF train_test_distances.err # "none"
                THEN /\ frame' = KnnRaised
                     /\ result' = train_test_distances
                ELSE IF train_test_distances.val.shape[1] = 0
                THEN /\ frame' = KnnRaised
                     /\ result' = Raise("ValueError")
                ELSE /\ frame' = KnnFrame(train_test_distances.val.rows)
                     /\ result' = result
    /\ op' = "calculate_knn"
    /\ UNCHANGED <<X, Y, array1, array2, vector_list, dtype, distances, labels, p>>

\* the call calculate_nearest_neighbour(distances = x, labels = y_train, k = k)
\* for the next row: its parameters are bound to the row and to y_train
EnterNearestNeighbour ==
    /\ frame.pc = "rows"
    /\ frame.i <= Len(frame.train_test_distances)
    /\ frame' = [frame EXCEPT !.pc = "vote",
                              !.distances = frame.train_test_distances[frame.i],
                              !.labels = labels]
    /\ UNCHANGED <<X, Y, array1, array2, vector_list, dtype, distances, labels, op, p, k,
                   distance_metric, result>>

\* the body of calculate_nearest_neighbour storing the unique labels into
\* the array it was given instead of binding its own name
VoteWritingIntoLabels ==
    /\ frame.pc = "vote"
    /\ \E r \in IF op = "calculate_knn"
                THEN nearest_neighbour_np_locals(frame.distances, frame.labels, k)
                ELSE nearest_neighbour_locals(frame.distances, frame.labels, k) :
         /\ labels' = r.labels
         /\ IF r.out.err # "none"
            THEN /\ frame' = KnnRaised
                 /\ result' = r.out
            ELSE /\ frame' = [frame EXCEPT !.pc = "rows", !.i = frame.i + 1,
                                           !.labels = r.labels,
                                           !.predicted_labels = Append(frame.predicted_labels, r.out.val)]
                 /\ result' = result
    /\ UNCHANGED <<X, Y, array1, array2, vector_list, dtype, distances, op, p, k,
                   distance_metric>>

\* the body of calculate_nearest_neighbour and its return into calculate_knn;
\* the NumPy version rebinds its own name labels, y_train is not assigned to
VoteNearestNeighbour ==
    /\ frame.pc = "vote"
    /\ \E r \in IF op = "calculate_knn"
                THEN nearest_neighbour_np_locals(frame.distances, frame.labels, k)
                ELSE nearest_neighbour_locals(frame.distances, frame.labels, k) :
         IF r.out.err # "none"
         THEN /\ frame' = KnnRaised
              /\ result' = r.out
         ELSE /\ frame' = [frame EXCEPT !.pc = "rows", !.i = frame.i + 1,
                                        !.labels = r.labels,
                                        !.predicted_labels = Append(frame.predicted_labels, r.out.val)]
              /\ result' = result
    /\ UNCHANGED <<X, Y, array1, array2, vector_list, dtype, distances, labels, op, p, k,
                   distance_metric>>

\* after the last row: the predictions are returned
ReturnKnn ==
    /\ frame.pc = "rows"
    /\ frame.i > Len(frame.train_test_distances)
    /\ result' = Ok(frame.predicted_labels)
    /\ frame' = [frame EXCEPT !.pc = "done"]
    /\ UNCHANGED <<X, Y, array1, array2, vector_list, dtype, distances, labels, op, p, k,
                   distance_metric>>

NextKnnSteps ==
    \/ StartKnnUnoptimised
    \/ StartKnn
    \/ EnterNearestNeighbour
    \/ VoteNearestNeighbour
    \/ ReturnKnn

SpecKnnSteps == InitKnnSteps /\ [][NextKnnSteps]_vars

(***************************************************************************)
(* One matrix of a single 0/1 feature, for the triangular functions alone: *)
(* the pairs they take depend on the number of rows only                   *)
(***************************************************************************)
MaxTriangleRows == 4

InitTriangle ==
    /\ array1 \in {[d |-> 1, rows |-> r] :
                      r \in UNION {[1..n -> [1..1 -> LoopVals]] : n \in 0..MaxTriangleRows}}
    /\ array2 = array1
    /\ X = <<>>
    /\ Y = <<>>
    /\ distances = <<>>
    /\ labels = <<>>
    /\ dtype = "int64"
    /\ vector_list = <<>>
    /\ frame = NoFrame
    /\ NoCall

NextTriangle == CallUpperTriangle \/ CallManhattanTriangle \/ CallEuclideanTriangle

SpecTriangle == InitTriangle /\ [][NextTriangle]_vars

(***************************************************************************)
(* calculate_knn of presentation 4 on observations of two features, where  *)
(* the Manhattan and the Euclidean distance can rank the training rows     *)
(* differently, called with known, unknown and misspelt metric names       *)
(***************************************************************************)
MetricNames == Metrics \cup {"Manhattan", "manhatan", ""}
MetricShapes == {0, 1, 2} \X {0, 1}
MetricVals == {0, 2, 3}
MetricArraysOf(n) == {[d |-> 2, rows |-> r] : r \in [1..n -> [1..2 -> MetricVals]]}

InitMetric ==
    /\ \E nm \in MetricShapes :
         /\ array1 \in MetricArraysOf(nm[1])
         /\ array2 \in MetricArraysOf(nm[2])
    /\ labels \in [1..NRows(array1) -> LabelSet]
    /\ X = <<>>
    /\ Y = <<>>
    /\ distances = <<>>
    /\ dtype = "int64"
    /\ vector_list = <<>>
    /\ frame = NoFrame
    /\ NoCall

CallKnnNamed ==
    /\ op = "none"
    /\ \E kk \in 1..MaxK, metric \in MetricNames :
         /\ k' = kk
         /\ distance_metric' = metric
         /\ result' \in calculate_knn(array1, array2, labels, metric, kk)
    /\ op' = "calculate_knn"
    /\ UNCHANGED <<Data, p>>

SpecMetric == InitMetric /\ [][CallKnnNamed]_vars

(***************************************************************************)
(* Properties                                                              *)
(***************************************************************************)
Returned == result.err = "none"

\* C1: for every matrix of equal-length rows and every p >= 1 the matrix the
\* naive nested loop builds equals, entry for entry, the matrix the broadcast
\* strategy returns for the matrix compared with itself.
C1_NaiveEqualsBroadcast ==
    op = "apply_minkowski_distance" =>
        LET b == calculate_minkowski_distance_vectorised(array1, array1, p)
        IN  /\ Returned
            /\ b.err = "none"
            /\ Len(result.val) = b.val.shape[1]
            /\ \A i \in 1..Len(result.val) :
                 /\ Len(result.val[i]) = b.val.shape[2]
                 /\ \A j \in 1..Len(result.val[i]) : result.val[i][j] = b.val.rows[i][j]

\* three rows of two features, a cube root among the naive distances
C1_Witness ==
    /\ op = "apply_minkowski_distance"
    /\ NRows(array1) = 3
    /\ array1.d = 2
    /\ p = 3
    /\ Returned
    /\ \E i \in 1..3, j \in 1..3 : result.val[i][j].idx = 3

\* the dense matrix the triples stand for: mirrored, with a zero diagonal
Mirror(triples, n) ==
    [i \in 1..n |-> [j \in 1..n |->
        IF i = j THEN Num(0)
        ELSE LET t == CHOOSE u \in 1..Len(triples) :
                          \/ triples[u].row1 = i - 1 /\ triples[u].row2 = j - 1
                          \/ triples[u].row1 = j - 1 /\ triples[u].row2 = i - 1
             IN  triples[t].distance]]

\* C2: every triple (i, j, distance) of the triangular strategy carries the
\* distance the broadcast matrix holds at (i, j) and at (j, i), and mirroring
\* the triples with a zero diagonal rebuilds the broadcast matrix.
C2_TriangleEqualsBroadcast ==
    op = "calculate_minkowski_distance_upper_triangle" =>
        LET b == calculate_minkowski_distance_vectorised(array1, array1, p)
            n == NRows(array1)
            triples == result.val
        IN  /\ Returned
            /\ b.err = "none"
            /\ \A t \in 1..Len(triples) :
                 /\ triples[t].row1 \in 0..(n - 1)
                 /\ triples[t].row2 \in 0..(n - 1)
                 /\ triples[t].distance = b.val.rows[triples[t].row1 + 1][triples[t].row2 + 1]
                 /\ triples[t].distance = b.val.rows[triples[t].row2 + 1][triples[t].row1 + 1]
            /\ \A i \in 1..n, j \in 1..n :
                 i # j => \E t \in 1..Len(triples) :
                             {triples[t].row1, triples[t].row2} = {i - 1, j - 1}
            /\ Mirror(triples, n) = b.val.rows

\* three rows, three triples, pairwise different distances, one of them a surd
C2_Witness ==
    /\ op = "calculate_minkowski_distance_upper_triangle"
    /\ NRows(array1) = 3
    /\ Returned
    /\ Len(result.val) = 3
    /\ result.val[1].distance # result.val[2].distance
    /\ result.val[2].distance # result.val[3].distance
    /\ result.val[1].distance # result.val[3].distance
    /\ \E t \in 1..3 : result.val[t].distance.idx > 1

\* the generic engine's distance between training row i and test row j
Generic(i, j, q) == calculate_minkowski_distance_vectorised(array1, array2, q).val.rows[i][j]

\* C3: the specialised Manhattan distance gives for each pair of rows the
\* distance of the generic engine with p = 1, the specialised Euclidean
\* distance that of the generic engine with p = 2, in the triangular and in
\* the broadcast versions.
C3_SpecialisedEqualGeneric ==
    /\ op = "calculate_manhattan_distance_vectorised" =>
         /\ Returned
         /\ result.val.shape = <<NRows(array2), NRows(array1)>>
         /\ \A j \in 1..NRows(array2), i \in 1..NRows(array1) :
              result.val.rows[j][i] = Generic(i, j, 1)
    /\ op = "calculate_euclidean_distance_vectorised" =>
         /\ Returned
         /\ result.val.shape = <<NRows(array2), NRows(array1)>>
         /\ \A j \in 1..NRows(array2), i \in 1..NRows(array1) :
              result.val.rows[j][i] = Generic(i, j, 2)
    /\ op = "calculate_manhattan_distance_triangle" =>
         result = calculate_minkowski_distance_upper_triangle(array1, 1)
    /\ op = "calculate_euclidean_distance_triangle" =>
         result = calculate_minkowski_distance_upper_triangle(array1, 2)

\* a Euclidean distance from a negative difference that is no whole number
C3_Witness ==
    /\ op = "calculate_euclidean_distance_vectorised"
    /\ NRows(array1) = 2
    /\ NRows(array2) = 1
    /\ array1.d = 2
    /\ array1.rows[1] # array1.rows[2]
    /\ Returned
    /\ \E i \in 1..2 :
         /\ array1.rows[i][1] < array2.rows[1][1]
         /\ result.val.rows[1][i].idx = 2

\* the labels that can win a vote among k entries of smallest distance
KSmallestWinners(ds, ls, kk) ==
    UNION {Modes([i \in 1..kk |-> ls[f[i]]]) : f \in ArgsortOrders(ds)}

\* C4: for k >= 1 and a row of at least k distances the label returned, by
\* the list version and by the NumPy version, is one that no other label
\* outnumbers among the k entries of smallest distance.
C4_MajorityOfKSmallest ==
    (/\ op \in {"calculate_nearest_neighbour", "calculate_nearest_neighbour_np"}
     /\ k >= 1
     /\ Len(distances) >= k
     /\ Returned)
    => result.val \in KSmallestWinners(distances, labels, k)

\* the distances from test row j to all training rows, in training order
TestRow(j, metric) ==
    [i \in 1..NRows(array1) |->
        IF metric = "manhattan"
        THEN calculate_manhattan_distance(array1.rows[i], array2.rows[j]).val
        ELSE calculate_minkowski_distance(array1.rows[i], array2.rows[j], 2).val]

\* C5: whenever calculate_knn returns, it returns one label per test row, the
\* i-th being a calculate_nearest_neighbour result for the distances from
\* test row i to all training rows, also when there are no training rows.
C5_OneLabelPerTestRow ==
    /\ (op = "calculate_knn_unoptimised" /\ Returned) =>
         /\ Len(result.val) = NRows(array2)
         /\ \A j \in 1..Len(result.val) :
              Ok(result.val[j]) \in
                  calculate_nearest_neighbour(TestRow(j, "manhattan"), labels, k)
    /\ (op = "calculate_knn" /\ Returned) =>
         /\ Len(result.val) = NRows(array2)
         /\ \A j \in 1..Len(result.val) :
              Ok(result.val[j]) \in
                  calculate_nearest_neighbour_np(TestRow(j, distance_metric), labels, k)

\* C6: the element loops, given vectors of different length, raise whichever
\* of the two is the longer.
C6_LengthMismatchRaises ==
    (/\ op \in {"calculate_minkowski_distance", "calculate_manhattan_distance"}
     /\ Len(X) # Len(Y))
    => ~Returned

\* C7: the broadcast functions raise whenever the feature counts of the two
\* matrices differ, also when one of them is 1.
C7_FeatureMismatchRaises ==
    (/\ op \in {"calculate_minkowski_distance_vectorised",
                "calculate_manhattan_distance_vectorised",
                "calculate_euclidean_distance_vectorised"}
     /\ array1.d # array2.d)
    => ~Returned

\* C8: for vectors of equal length and every p >= 1 the distance from X to Y
\* is the distance from Y to X.
C8_Symmetric ==
    (Len(X) = Len(Y)) =>
        /\ op = "calculate_minkowski_distance" =>
             Returned /\ result = calculate_minkowski_distance(Y, X, p)
        /\ op = "calculate_minkowski_distance_vec" =>
             Returned /\ result = calculate_minkowski_distance_vec(Y, X, p)

\* an odd power, a negative and a positive difference, a distance above 0
C8_Witness ==
    /\ op = "calculate_minkowski_distance"
    /\ p = 3
    /\ Len(X) = 2
    /\ Len(Y) = 2
    /\ X[1] < Y[1]
    /\ X[2] > Y[2]
    /\ Returned
    /\ result.val.rad > 0

Rows(r) == IF op = "apply_minkowski_distance" THEN r.val ELSE r.val.rows

\* C9: a matrix compared with itself, by the naive loop or by broadcasting,
\* has a diagonal of zeros and equal entries at (i, j) and (j, i), for p = 1
\* and for p = 2.
C9_SelfZeroDiagonalSymmetric ==
    (/\ op \in {"apply_minkowski_distance", "calculate_minkowski_distance_vectorised"}
     /\ array2 = array1
     /\ p \in {1, 2})
    => /\ Returned
       /\ Len(Rows(result)) = NRows(array1)
       /\ \A i \in 1..NRows(array1) :
            /\ Len(Rows(result)[i]) = NRows(array1)
            /\ Rows(result)[i][i] = Num(0)
            /\ \A j \in 1..NRows(array1) : Rows(result)[i][j] = Rows(result)[j][i]

\* three different rows compared by broadcasting with p = 1
C9_Witness ==
    /\ op = "calculate_minkowski_distance_vectorised"
    /\ array2 = array1
    /\ p = 1
    /\ NRows(array1) = 3
    /\ Returned
    /\ \A i \in 1..3, j \in 1..3 : i # j => result.val.rows[i][j] # Num(0)

\* C10: for vectors of equal length and every p >= 1 the vectorised distance
\* of one pair is the value the element loop returns.
C10_VectorisedEqualsLoop ==
    (op = "calculate_minkowski_distance_vec" /\ Len(X) = Len(Y)) =>
        /\ Returned
        /\ result = calculate_minkowski_distance(X, Y, p)

\* three features, p = 3, a distance that is a cube root
C10_Witness ==
    /\ op = "calculate_minkowski_distance_vec"
    /\ Len(X) = 3
    /\ Len(Y) = 3
    /\ p = 3
    /\ Returned
    /\ result.val.idx = 3

\* the distance of the element loops between row i of array1 and row j of
\* array2: Manhattan, Euclidean, or of the power the call was given
PairDistance(i, j) ==
    IF op \in {"calculate_manhattan_distance_vectorised", "apply_manhattan_distance"}
    THEN calculate_manhattan_distance(array1.rows[i], array2.rows[j]).val
    ELSE IF op = "calculate_euclidean_distance_vectorised"
    THEN calculate_minkowski_distance(array1.rows[i], array2.rows[j], 2).val
    ELSE calculate_minkowski_distance(array1.rows[i], array2.rows[j], p).val

\* a matrix of the one row r
OneRow(a, r) == [d |-> a.d, rows |-> <<r>>]

\* what the function recorded in op gives for row i of array1 and row j of
\* array2 alone
PairAlone(i, j) ==
    LET a == OneRow(array1, array1.rows[i])
        b == OneRow(array2, array2.rows[j])
    IN  IF op = "apply_manhattan_distance"
        THEN calculate_manhattan_distance(array1.rows[i], array2.rows[j]).val
        ELSE IF op = "calculate_manhattan_distance_vectorised"
        THEN calculate_manhattan_distance_vectorised(a, b).val.rows[1][1]
        ELSE IF op = "calculate_euclidean_distance_vectorised"
        THEN calculate_euclidean_distance_vectorised(a, b).val.rows[1][1]
        ELSE calculate_minkowski_distance_vectorised(a, b, p).val.rows[1][1]

TwoSetArrayOps ==
    {"calculate_minkowski_distance_vectorised", "calculate_manhattan_distance_vectorised",
     "calculate_euclidean_distance_vectorised"}

Outcomes ==
    IF op = "calculate_nearest_neighbour"
    THEN calculate_nearest_neighbour(distances, labels, k)
    ELSE calculate_nearest_neighbour_np(distances, labels, k)

\* C12: for one row of distances, one list of labels and one k >= 1 the
\* call has a single possible result, also when labels tie for the highest
\* count among the selected neighbours.
C12_SingleOutcome ==
    (/\ op \in {"calculate_nearest_neighbour", "calculate_nearest_neighbour_np"}
     /\ k >= 1)
    => Outcomes = {result}

\* C13: called with k < 1 on a row of at least one distance, the list
\* version and the NumPy version raise and return no label.
C13_NonPositiveKRaises ==
    (/\ op \in {"calculate_nearest_neighbour", "calculate_nearest_neighbour_np"}
     /\ k < 1
     /\ Len(distances) >= 1)
    => ~Returned

\* s without its i-th entry
Without(s, i) == SubSeq(s, 1, i - 1) \o SubSeq(s, i + 1, Len(s))

\* the first of the entries of smallest distance
FirstNearest(ds) ==
    CHOOSE i \in 1..Len(ds) :
        /\ \A j \in 1..Len(ds) : LessEq(ds[i], ds[j])
        /\ \A j \in 1..(i - 1) : Less(ds[i], ds[j])

\* C14: with k above the number of candidates (all entries but the first
\* nearest in the list version, all entries in the NumPy version) the call
\* votes over all the candidates, and raises only when there is none.
C14_ClampsToCandidates ==
    /\ (op = "calculate_nearest_neighbour" /\ k >= 1 /\ k > Len(distances) - 1) =>
         IF Len(distances) <= 1 THEN ~Returned
         ELSE /\ Returned
              /\ result.val \in Modes(Without(labels, FirstNearest(distances)))
    /\ (op = "calculate_nearest_neighbour_np" /\ k >= 1 /\ k > Len(distances)) =>
         IF Len(distances) = 0 THEN ~Returned
         ELSE /\ Returned
              /\ result.val \in Modes(labels)

\* k = 3 for two candidates, the nearest entry's label outvoted by the others
C14_Witness ==
    /\ op = "calculate_nearest_neighbour"
    /\ Len(distances) = 3
    /\ k = 3
    /\ Returned
    /\ result.val # labels[FirstNearest(distances)]
    /\ Count(Without(labels, FirstNearest(distances)), result.val) = 2

\* C15: with p = 0 or p < 0 and inputs of equal length (vectors of at
\* least one element, matrices of at least one row of at least one feature)
\* the element loop, the vectorised version and the broadcast version raise
\* and return nothing.
C15_NonPositivePRaises ==
    /\ (/\ op \in {"calculate_minkowski_distance", "calculate_minkowski_distance_vec"}
        /\ p <= 0
        /\ Len(X) = Len(Y)
        /\ Len(X) >= 1) => ~Returned
    /\ (/\ op = "calculate_minkowski_distance_vectorised"
        /\ p <= 0
        /\ array1.d = array2.d
        /\ array1.d >= 1
        /\ NRows(array1) >= 1
        /\ NRows(array2) >= 1) => ~Returned

\* the rows of the list have one length
SameLengths == \A i, j \in 1..Len(vector_list) : Len(vector_list[i]) = Len(vector_list[j])

\* C16: a list with rows of different lengths makes the nested loop fail,
\* and it fails before it has computed any distance and hands the caller
\* no distances.
C16_FailsBeforeComputing ==
    /\ frame.pc = "done" => SameLengths
    /\ frame.pc = "raised" =>
         /\ frame.calls = 0
         /\ result.val = <<>>

\* a real number that is at least 0 (nan is not)
NonNegative(x) == x.idx >= 1 /\ x.rad >= 0

\* C17: every distance of every matrix the broadcast and the triangular
\* functions and the naive two-set loop return is at least 0.
C17_NonNegativeEntries ==
    /\ (op \in TwoSetArrayOps /\ Returned) =>
         \A i \in 1..Len(result.val.rows) : \A j \in 1..Len(result.val.rows[i]) :
             NonNegative(result.val.rows[i][j])
    /\ (op = "apply_manhattan_distance" /\ Returned) =>
         \A i \in 1..Len(result.val) : \A j \in 1..Len(result.val[i]) :
             NonNegative(result.val[i][j])
    /\ (/\ op \in {"calculate_manhattan_distance_triangle",
                    "calculate_euclidean_distance_triangle"}
        /\ Returned) =>
         \A t \in 1..Len(result.val) : NonNegative(result.val[t].distance)

\* C18: with no row in the first or in the second matrix the broadcast
\* functions and the naive two-set loop return a result without any
\* distance and raise nothing, and so do the nested loop over one list
\* without vectors and the triangular functions for a matrix of no row or
\* of one row.
C18_EmptyInputsGiveEmpty ==
    /\ (op \in TwoSetArrayOps /\ (NRows(array1) = 0 \/ NRows(array2) = 0)) =>
         /\ Returned
         /\ result.val.shape[1] = 0 \/ result.val.shape[2] = 0
         /\ Len(result.val.rows) = result.val.shape[1]
         /\ \A i \in 1..Len(result.val.rows) : result.val.rows[i] = <<>>
    /\ (op = "apply_manhattan_distance" /\ (NRows(array1) = 0 \/ NRows(array2) = 0)) =>
         /\ Returned
         /\ result.val = <<>>
    /\ (/\ op \in {"calculate_manhattan_distance_triangle",
                    "calculate_euclidean_distance_triangle"}
        /\ NRows(array1) <= 1) =>
         /\ Returned
         /\ result.val = <<>>
    /\ \A q \in 1..MaxP :
         /\ NRows(array1) = 0 => apply_minkowski_distance(array1.rows, q) = Ok(<<>>)
         /\ NRows(array1) <= 1 =>
              calculate_minkowski_distance_upper_triangle(array1, q) = Ok(<<>>)

\* the only row of a matrix of two features has no pair
C18_Witness ==
    /\ op = "calculate_euclidean_distance_triangle"
    /\ NRows(array1) = 1
    /\ array1.d = 2
    /\ Returned
    /\ result.val = <<>>

\* C19: for matrices of one feature the Manhattan and the Euclidean
\* distance between rows [a] and [b] are both |a - b|, in the triangular
\* and in the broadcast functions.
C19_OneFeatureAbsDifference ==
    (array1.d = 1 /\ array2.d = 1) =>
        /\ (/\ op \in {"calculate_manhattan_distance_vectorised",
                        "calculate_euclidean_distance_vectorised"}
            /\ Returned) =>
             \A j \in 1..NRows(array2), i \in 1..NRows(array1) :
                 result.val.rows[j][i] = Num(Abs(array1.rows[i][1] - array2.rows[j][1]))
        /\ (/\ op \in {"calculate_manhattan_distance_triangle",
                        "calculate_euclidean_distance_triangle"}
            /\ Returned) =>
             \A t \in 1..Len(result.val) :
                 result.val[t].distance =
                     Num(Abs(array1.rows[result.val[t].row1 + 1][1]
                             - array1.rows[result.val[t].row2 + 1][1]))

\* C20: for X = [5, 7, 3, 9] and Y = [1, 6, 2, 4] the element loop and the
\* vectorised version return 11 for p = 1 and the square root of 43, which
\* lies between 6.557 and 6.558, for p = 2; the Manhattan loop returns 11.
C20_ExampleDistances ==
    (X = ExampleX /\ Y = ExampleY) =>
        /\ (/\ op \in {"calculate_minkowski_distance", "calculate_minkowski_distance_vec"}
            /\ p = 1) => result = Ok(Num(11))
        /\ (/\ op \in {"calculate_minkowski_distance", "calculate_minkowski_distance_vec"}
            /\ p = 2) =>
             /\ result = Ok([rad |-> 43, idx |-> 2])
             /\ Pow(6557, 2) < result.val.rad * Pow(1000, 2)
             /\ result.val.rad * Pow(1000, 2) < Pow(6558, 2)
        /\ op = "calculate_manhattan_distance" => result = Ok(Num(11))

\* the element loop called with the two vectors and p = 2
C20_Witness ==
    /\ op = "calculate_minkowski_distance"
    /\ X = ExampleX
    /\ Y = ExampleY
    /\ p = 2
    /\ Returned
    /\ result.val.idx = 2

\* the rows of the notebook's matrix: X, Y, Z in this order
ExampleMatrixRows == <<ExampleX, ExampleY, ExampleZ>>

\* the three distances, exactly
Sqrt43 == [rad |-> 43, idx |-> 2]
Sqrt74 == [rad |-> 74, idx |-> 2]
Sqrt63 == [rad |-> 63, idx |-> 2]

\* x lies between lo / 1000 and (lo + 1) / 1000
RoundsTo(x, lo) ==
    /\ x.idx = 2
    /\ Pow(lo, 2) < x.rad * Pow(1000, 2)
    /\ x.rad * Pow(1000, 2) < Pow(lo + 1, 2)

\* C21: for the matrix of X = [5,7,3,9], Y = [1,6,2,4], Z = [8,8,3,1] and
\* p = 2 the nested loop and the broadcast function return the symmetric
\* 3 x 3 matrix with zero diagonal and sqrt 43 (X,Y), sqrt 74 (X,Z), sqrt 63
\* (Y,Z) off it (6.557.., 8.602.., 7.937..), and the triangular functions
\* return exactly the triples (0,1), (0,2), (1,2) with those distances.
C21_ExampleMatrix ==
    array1.rows = ExampleMatrixRows =>
        /\ (/\ op \in {"apply_minkowski_distance", "calculate_minkowski_distance_vectorised"}
            /\ p = 2) =>
             /\ Returned
             /\ Rows(result) = << <<Num(0), Sqrt43, Sqrt74>>,
                                  <<Sqrt43, Num(0), Sqrt63>>,
                                  <<Sqrt74, Sqrt63, Num(0)>> >>
             /\ \A i, j \in 1..3 : Rows(result)[i][j] = Rows(result)[j][i]
        /\ (\/ op = "calculate_minkowski_distance_upper_triangle" /\ p = 2
            \/ op = "calculate_euclidean_distance_triangle") =>
             result = Ok(<< [row1 |-> 0, row2 |-> 1, distance |-> Sqrt43],
                            [row1 |-> 0, row2 |-> 2, distance |-> Sqrt74],
                            [row1 |-> 1, row2 |-> 2, distance |-> Sqrt63] >>)
        /\ RoundsTo(Sqrt43, 6557)
        /\ RoundsTo(Sqrt74, 8602)
        /\ RoundsTo(Sqrt63, 7937)

\* the triangular function called with the three vectors and p = 2
C21_Witness ==
    /\ op = "calculate_minkowski_distance_upper_triangle"
    /\ array1.rows = ExampleMatrixRows
    /\ p = 2
    /\ Returned
    /\ Len(result.val) = 3

\* C22: with k = 3 and a row that, sorted by distance, is (0, A), (1.2, A),
\* (1.5, B), (2.0, A), whatever order its entries come in, the list-based
\* calculate_nearest_neighbour leaves the entry at distance 0 out and
\* returns A, the majority of the labels A, B, A of the three others.
C22_ExampleVote ==
    (/\ op = "calculate_nearest_neighbour"
     /\ Sorted(Zip(distances, labels)) = ExampleNeighbours
     /\ k = 3)
    => result = Ok("A")

\* the call on the row given in another order than the ascending one
C22_Witness ==
    /\ op = "calculate_nearest_neighbour"
    /\ Sorted(Zip(distances, labels)) = ExampleNeighbours
    /\ distances[1] = Num(20)
    /\ k = 3
    /\ result = Ok("A")

\* the stepwise calculate_knn ends with an outcome of the function as a whole
KnnStepsAgree ==
    frame.pc \in {"done", "raised"} =>
        result \in IF op = "calculate_knn"
                   THEN calculate_knn(array1, array2, labels, distance_metric, k)
                   ELSE calculate_knn_unoptimised(array1.rows, array2.rows, labels, k)

\* C23: no step of calculate_knn, of the distance function it calls or of
\* calculate_nearest_neighbour changes the training matrix, the test matrix
\* or the training labels; the matrix of distances, once built, keeps its
\* rows; and every call of calculate_nearest_neighbour, for whichever test
\* row, starts with labels equal to the training labels.
C23_InputsUnchanged ==
    [][/\ array1' = array1
       /\ array2' = array2
       /\ labels' = labels
       /\ (frame.pc \in {"rows", "vote"} /\ frame'.pc \in {"rows", "vote", "done"})
            => frame'.train_test_distances = frame.train_test_distances
       /\ frame'.pc = "vote" =>
            /\ frame'.labels = labels
            /\ frame'.distances = frame.train_test_distances[frame.i]]_vars

\* the NumPy version is entered for the second test row after the first
\* call bound its name labels to fewer labels than the training set has
C23_Witness ==
    /\ op = "calculate_knn"
    /\ frame.pc = "vote"
    /\ frame.i = 2
    /\ Len(labels) = 2
    /\ labels[1] # labels[2]
    /\ Len(frame.predicted_labels) = 1

\* the rank of entry i of a row: ascending distance, equal distances by
\* position
Rank(ds, i) ==
    1 + Cardinality({j \in 1..Len(ds) :
                        \/ Less(ds[j], ds[i])
                        \/ j < i /\ LessEq(ds[j], ds[i])})

\* the labels at the ranks 2 to k + 1, as far as the row has them
NextRanks(ds, ls, kk) ==
    [r \in 1..Min(kk, Max(Len(ds) - 1, 0)) |->
        ls[CHOOSE i \in 1..Len(ds) : Rank(ds, i) = r + 1]]

\* C24: for k >= 1 the list-based calculate_nearest_neighbour returns a most
\* frequent label among the entries at the ranks 2 to k + 1 of the row in
\* ascending distance (as many of them as the row has), whatever the
\* smallest distance is: the entry of rank 1 has no vote, and the call
\* fails when no entry is left.
C24_SkipsTheNearest ==
    (/\ op = "calculate_nearest_neighbour"
     /\ k >= 1)
    => IF Len(distances) <= 1
       THEN result = Raise("ValueError")
       ELSE /\ Returned
            /\ result.val \in Modes(NextRanks(distances, labels, k))

\* the nearest entry, at a distance above 0, is the only one with its label
\* and the call returns the other label
C24_Witness ==
    /\ op = "calculate_nearest_neighbour"
    /\ k = 2
    /\ Len(distances) = 3
    /\ distances[2] = Num(1)
    /\ distances[1] = Num(2)
    /\ distances[3] = Num(2)
    /\ labels = <<0, 1, 0>>
    /\ result = Ok(0)

TriangleOps ==
    {"calculate_minkowski_distance_upper_triangle",
     "calculate_manhattan_distance_triangle",
     "calculate_euclidean_distance_triangle"}

\* C25: for a matrix of n rows the triangular functions return n (n - 1) / 2
\* records; every pair (i, j) with 0 <= i < j < n is the (row1, row2) of
\* exactly one record, no record has row1 >= row2, and the records come by
\* ascending row1 and, within one row1, ascending row2.
C25_UpperTrianglePairs ==
    op \in TriangleOps =>
        LET t == result.val
            n == NRows(array1)
        IN  /\ Returned
            /\ 2 * Len(t) = n * (n - 1)
            /\ \A a \in 1..Len(t) : 0 <= t[a].row1 /\ t[a].row1 < t[a].row2 /\ t[a].row2 < n
            /\ \A i, j \in 0..(n - 1) :
                 i < j => Cardinality({a \in 1..Len(t) : t[a].row1 = i /\ t[a].row2 = j}) = 1
            /\ \A a, b \in 1..Len(t) :
                 a < b => \/ t[a].row1 < t[b].row1
                          \/ t[a].row1 = t[b].row1 /\ t[a].row2 < t[b].row2

\* four rows: the six pairs, (0, 3) before (1, 2)
C25_Witness ==
    /\ op = "calculate_minkowski_distance_upper_triangle"
    /\ NRows(array1) = 4
    /\ Returned
    /\ Len(result.val) = 6
    /\ result.val[3].row1 = 0
    /\ result.val[3].row2 = 3
    /\ result.val[4].row1 = 1

\* C26: called with the training rows first and the test rows second, the
\* naive apply_manhattan_distance and apply_minkowski_distance (p = 1)
\* return one row per test observation that holds the distances to the
\* training observations in training order, and the result equals, entry
\* for entry, that of the broadcast calculate_manhattan_distance_vectorised.
C26_NaiveTrainTestEqualsBroadcast ==
    (/\ \/ op = "apply_manhattan_distance"
        \/ op = "apply_minkowski_distance_train_test" /\ p = 1
     /\ Returned)
    => /\ Len(result.val) = NRows(array2)
       /\ \A j \in 1..Len(result.val) : Len(result.val[j]) = NRows(array1)
       /\ result.val = calculate_manhattan_distance_vectorised(array1, array2).val.rows

\* C27: for n vectors of one length the nested loop apply_minkowski_distance
\* returns after exactly n * n evaluations of the vector distance: while it
\* runs, the number of evaluations made is the number of ordered pairs
\* before the pair (a, b) it stands at, self-pairs included, so every
\* ordered pair is evaluated once and every unordered pair twice.
C27_SquareNumberOfCalls ==
    LET n == Len(vector_list)
    IN  /\ frame.pc = "loop" => frame.calls = (frame.i - 1) * n + (frame.j - 1)
        /\ frame.pc = "done" => frame.calls = n * n
        /\ (SameLengths /\ op = "apply_minkowski_distance") => frame.pc \in {"loop", "done"}

\* three vectors: nine evaluations
C27_Witness ==
    /\ op = "apply_minkowski_distance"
    /\ frame.pc = "done"
    /\ Len(vector_list) = 3
    /\ vector_list[1] # vector_list[2]
    /\ frame.calls = 9
    /\ Returned

\* C28: for one row of distances, one list of labels and one k >= 1 for
\* which neither version's vote can end in a tie (each returns one possible
\* label), the NumPy calculate_nearest_neighbour returns the label the
\* list-based calculate_nearest_neighbour returns.
C28_NumPyEqualsList ==
    (/\ op = "calculate_nearest_neighbour_np"
     /\ k >= 1
     /\ Returned
     /\ calculate_nearest_neighbour_np(distances, labels, k) = {result}
     /\ \E x \in LabelSet : calculate_nearest_neighbour(distances, labels, k) = {Ok(x)})
    => calculate_nearest_neighbour(distances, labels, k) = {result}

\* at least two entries of the row have the smallest distance
TiedNearest(ds) ==
    \E i, j \in 1..Len(ds) :
        /\ i < j
        /\ \A h \in 1..Len(ds) : LessEq(ds[i], ds[h]) /\ LessEq(ds[j], ds[h])

\* C29: when several entries tie for the smallest distance, the list-based
\* calculate_nearest_neighbour (k >= 1) discards the one of lowest training
\* index only: the vote is over the first k of the remaining entries, by
\* ascending distance and, for equal distances, in training order, so that
\* with k = 1 it returns the label of the tied entry of second lowest index.
C29_StableSortKeepsTiedEntries ==
    (/\ op = "calculate_nearest_neighbour"
     /\ k >= 1
     /\ TiedNearest(distances))
    => LET first == FirstNearest(distances)
           ds == Without(distances, first)
           ls == Without(labels, first)
           voters == [r \in 1..Min(k, Len(ds)) |->
                         ls[CHOOSE i \in 1..Len(ds) : Rank(ds, i) = r]]
       IN  /\ Returned
           /\ result.val \in Modes(voters)
           /\ LessEq(ds[FirstNearest(ds)], distances[first])
           /\ k = 1 => result.val = ls[FirstNearest(ds)]

\* two entries at distance 0 with different labels and k = 1: the label of
\* the second one is returned
C29_Witness ==
    /\ op = "calculate_nearest_neighbour"
    /\ k = 1
    /\ Len(distances) = 3
    /\ distances[1] = Num(0)
    /\ distances[2] = Num(0)
    /\ distances[3] = Num(1)
    /\ labels = <<0, 1, 0>>
    /\ result = Ok(1)

\* C30: calculate_knn of presentation 4 called with distance_metric equal
\* to "manhattan" predicts from the Manhattan distances of each test row;
\* called with any other name, known or not, it has the outcomes of the
\* call with "euclidean", predicts from the Euclidean distances, and raises
\* only when there is no training row or no test row.
C30_ManhattanOnlyByName ==
    op = "calculate_knn" =>
        LET metric == IF distance_metric = "manhattan" THEN "manhattan" ELSE "euclidean"
        IN  /\ calculate_knn(array1, array2, labels, distance_metric, k)
                 = calculate_knn(array1, array2, labels, metric, k)
            /\ Returned =>
                 /\ Len(result.val) = NRows(array2)
                 /\ \A j \in 1..Len(result.val) :
                      Ok(result.val[j]) \in
                          calculate_nearest_neighbour_np(
                              [i \in 1..NRows(array1) |->
                                  IF distance_metric = "manhattan"
                                  THEN calculate_manhattan_distance(array1.rows[i], array2.rows[j]).val
                                  ELSE calculate_minkowski_distance(array1.rows[i], array2.rows[j], 2).val],
                              labels, k)
            /\ ~Returned => NRows(array1) = 0 \/ NRows(array2) = 0

\* a misspelt name gives a prediction that the Manhattan distances cannot
\* give
C30_Witness ==
    /\ op = "calculate_knn"
    /\ distance_metric = "manhatan"
    /\ k = 1
    /\ Returned
    /\ Len(result.val) = 1
    /\ result \notin calculate_knn(array1, array2, labels, "manhattan", k)
====
